---- MODULE Spec2Model ----
(***************************************************************************)
(* Model of scripts/validate-links.py, the documentation link validator.   *)
(*                                                                         *)
(* Python strings are sequences of one-character strings, so that prefix,  *)
(* suffix and substring tests, splitting and concatenation are computed as *)
(* Python computes them.  A pathlib.Path is a record [abs, parts].  The    *)
(* file system is a tree without symbolic links: a set of markdown entries *)
(* chosen in Init, a few fixed files, and the directories above them.      *)
(***************************************************************************)
EXTENDS Integers, Sequences, FiniteSets, TLC

VARIABLES cwd, entries, pc, pending, md_file, nocc, checked, errors,
          exit_status, log, probed, warnings, opened

vars == <<cwd, entries, pc, pending, md_file, nocc, checked, errors,
          exit_status, log, probed, warnings, opened>>

\* at most MaxFiles '*.md' entries exist in the tree
MaxFiles == 2
\* at most MaxOcc link occurrences are found in the files of the tree
MaxOcc == 2

(***************************************************************************)
(* str methods                                                             *)
(***************************************************************************)
startswith(s, p) == Len(s) >= Len(p) /\ SubSeq(s, 1, Len(p)) = p

endswith(s, p) == Len(s) >= Len(p) /\ SubSeq(s, Len(s) - Len(p) + 1, Len(s)) = p

\* sub in s
contains(s, sub) == \E i \in 1..(Len(s) - Len(sub) + 1) : SubSeq(s, i, i + Len(sub) - 1) = sub

RECURSIVE split(_, _)
split(s, ch) ==
    IF \A i \in 1..Len(s) : s[i] # ch
    THEN <<s>>
    ELSE LET i == CHOOSE k \in 1..Len(s) : s[k] = ch /\ \A j \in 1..(k - 1) : s[j] # ch
         IN  <<SubSeq(s, 1, i - 1)>> \o split(SubSeq(s, i + 1, Len(s)), ch)

RECURSIVE lstrip(_, _)
lstrip(s, ch) == IF s # <<>> /\ Head(s) = ch THEN lstrip(Tail(s), ch) ELSE s

RECURSIVE join(_, _)
join(parts, sep) ==
    IF parts = <<>> THEN <<>>
    ELSE IF Len(parts) = 1 THEN parts[1]
    ELSE parts[1] \o sep \o join(Tail(parts), sep)

(***************************************************************************)
(* pathlib                                                                 *)
(***************************************************************************)
RECURSIVE PathParts(_)
\* the components of a path string: empty and '.' components are dropped
PathParts(pieces) ==
    IF pieces = <<>> THEN <<>>
    ELSE IF Head(pieces) = <<>> \/ Head(pieces) = <<".">> THEN PathParts(Tail(pieces))
    ELSE <<Head(pieces)>> \o PathParts(Tail(pieces))

\* Path(s)
Path(s) == [abs |-> startswith(s, <<"/">>), parts |-> PathParts(split(s, "/"))]

\* p / s
PathJoin(p, s) ==
    IF startswith(s, <<"/">>) THEN Path(s)
    ELSE [abs |-> p.abs, parts |-> p.parts \o Path(s).parts]

\* str(p)
str(p) ==
    IF p.abs THEN <<"/">> \o join(p.parts, <<"/">>)
    ELSE IF p.parts = <<>> THEN <<".">>
    ELSE join(p.parts, <<"/">>)

\* p.parent
parent(p) ==
    IF p.parts = <<>> THEN p
    ELSE [abs |-> p.abs, parts |-> SubSeq(p.parts, 1, Len(p.parts) - 1)]

RECURSIVE Normalize(_, _)
\* collapses '..' components from the left; '..' at the root stays at the root
Normalize(acc, rest) ==
    IF rest = <<>> THEN acc
    ELSE IF Head(rest) = <<".",".">>
         THEN Normalize(IF acc = <<>> THEN <<>> ELSE SubSeq(acc, 1, Len(acc) - 1), Tail(rest))
         ELSE Normalize(Append(acc, Head(rest)), Tail(rest))

\* p.resolve(): absolute and normalized; a relative path is taken from the
\* working directory
resolve(p) ==
    [abs |-> TRUE,
     parts |-> Normalize(<<>>, IF p.abs THEN p.parts ELSE cwd \o p.parts)]

\* p.parents: the proper ancestors of p
parents(p) == { [abs |-> p.abs, parts |-> SubSeq(p.parts, 1, n)] : n \in 0..(Len(p.parts) - 1) }

(***************************************************************************)
(* The file system                                                         *)
(***************************************************************************)
\* <tool's repository>/scripts/validate-links.py, the value of __file__
SCRIPT_FILE == Path(<<"/","r","e","p","o","/","s","c","r","i","p","t","s","/","v","a","l","i","d","a","t","e","-","l","i","n","k","s",".","p","y">>)

\* the '*.md' entries a tree may hold
Candidates ==
    { Path(s).parts : s \in
        { <<"/","r","e","p","o","/","d","o","c","s","/","a",".","m","d">>, <<"/","r","e","p","o","/","d","o","c","s","/","a",".","m","d",":","b",".","m","d">>, <<"/","r","e","p","o","/","d","o","c","s","/","d","i","r",".","m","d">>,
          <<"/","r","e","p","o","/","d","o","c","s","/","w","i","k","i","/","H","o","m","e",".","m","d">>, <<"/","r","e","p","o","/","d","o","c","s","/","w","i","k","i","/","O","t","h","e","r",".","m","d">>,
          <<"/","r","e","p","o","/","d","o","c","s","/","w","i","k","i","-","a","r","c","h","i","v","e","/","x",".","m","d">>, <<"/","r","e","p","o","/","d","o","c","s","/","a","u","d","i","t","/","o","l","d",".","m","d">>,
          <<"/","r","e","p","o","/",".","g","i","t","h","u","b","/","c",".","m","d">>, <<"/","o","u","t","/","d","o","c","s","/","w","i","k","i","/","O","t","h","e","r",".","m","d">> } }

\* the '*.md' entries that are directories: open() raises IsADirectoryError
DirEntries == { Path(<<"/","r","e","p","o","/","d","o","c","s","/","d","i","r",".","m","d">>).parts }

\* files that are not '*.md' entries
FixedFiles == { SCRIPT_FILE.parts, Path(<<"/","e","t","c","/","p","a","s","s","w","d">>).parts }

\* the directories a command may be run from
CwdChoices == { Path(<<"/","r","e","p","o">>).parts, Path(<<"/","o","u","t">>).parts }

\* the link urls a file may hold
Links ==
    { <<"h","t","t","p","s",":","/","/","e">>, <<"#","t","o","p">>, <<"{","{","u","}","}">>, <<"O","t","h","e","r">>, <<"O","t","h","e","r","#","s">>, <<"a",".","m","d">>,
      <<".",".","/",".",".","/",".",".","/","e","t","c","/","p","a","s","s","w","d">>, <<"b",".","m","d",":",".",".","/",".",".","/",".",".","/","e","t","c","/","p","a","s","s","w","d">>, <<"/","g","h","o","s","t","/",".",".","/","a",".","m","d">> }

Files == FixedFiles \cup (entries \ DirEntries)

Dirs ==
    {cwd} \cup (entries \cap DirEntries)
    \cup UNION { { SubSeq(e, 1, n) : n \in 0..(Len(e) - 1) } : e \in entries \cup FixedFiles }

RECURSIVE Walk(_, _)
\* path lookup by the operating system: every component before the last
\* names an existing directory, '..' is that directory's parent
Walk(cur, rest) ==
    IF rest = <<>> THEN cur \in Dirs \cup Files
    ELSE IF cur \notin Dirs THEN FALSE
    ELSE IF Head(rest) = <<".",".">>
         THEN Walk(IF cur = <<>> THEN <<>> ELSE SubSeq(cur, 1, Len(cur) - 1), Tail(rest))
         ELSE Walk(Append(cur, Head(rest)), Tail(rest))

\* p.exists()
exists(p) == Walk(IF p.abs THEN <<>> ELSE cwd, p.parts)

(***************************************************************************)
(* validate-links.py                                                       *)
(***************************************************************************)
REPO_ROOT == parent(parent([abs |-> TRUE, parts |-> Normalize(<<>>, SCRIPT_FILE.parts)]))

is_path_safe(target_path) ==
    LET resolved_target == resolve(target_path)
        resolved_root == resolve(REPO_ROOT)
    IN  resolved_target = resolved_root \/ resolved_root \in parents(resolved_target)

is_external_link(link) ==
    startswith(link, <<"h","t","t","p",":","/","/">>) \/ startswith(link, <<"h","t","t","p","s",":","/","/">>) \/ startswith(link, <<"m","a","i","l","t","o",":">>)

is_anchor_only(link) == startswith(link, <<"#">>)

\* has_liquid_template without its test
has_liquid_template_never(link) == FALSE

has_liquid_template(link) == contains(link, <<"{","{">>) \/ contains(link, <<"}","}">>)

is_wiki_style_link(link, file_path) ==
    /\ contains(str(file_path), <<"d","o","c","s","/","w","i","k","i">>)
    /\ ~endswith(link, <<".","m","d">>)
    /\ ~endswith(link, <<"/">>)
    /\ ~contains(split(link, "#")[1], <<"/">>)

None == [none |-> TRUE]

\* the target before the safety check (lines 89-96)
link_target(link, file_path) ==
    LET clean_link == split(link, "#")[1]
    IN  IF startswith(clean_link, <<"/">>)
        THEN PathJoin(PathJoin(REPO_ROOT, <<"d","o","c","s">>), lstrip(clean_link, "/"))
        ELSE resolve(PathJoin(parent(file_path), clean_link))

resolve_target_path(link, file_path) ==
    LET target == link_target(link, file_path)
    IN  IF ~is_path_safe(target) THEN None ELSE target

wiki_target(link, file_path) == PathJoin(parent(file_path), link \o <<".","m","d">>)

check_wiki_style_link(link, file_path) ==
    LET target_with_ext == wiki_target(link, file_path)
    IN  IF ~is_path_safe(target_with_ext) THEN FALSE ELSE exists(target_with_ext)

\* the paths check_wiki_style_link asks the file system about
wiki_probes(link, file_path) ==
    LET target_with_ext == wiki_target(link, file_path)
    IN  IF ~is_path_safe(target_with_ext) THEN {} ELSE {target_with_ext}

\* root_path.rglob('*.md'): the entries below the scanned root, as paths
\* that start with root_path
rglob(root_path) ==
    LET root == resolve(root_path).parts
    IN  { e \in entries : Len(e) > Len(root) /\ SubSeq(e, 1, Len(root)) = root }

rel_path(root_path, e) ==
    [abs |-> root_path.abs,
     parts |-> root_path.parts \o SubSeq(e, Len(resolve(root_path).parts) + 1, Len(e))]

\* the default of check_links' parameter, which main does not override
root_dir == <<".">>

is_excluded(f) ==
    \/ contains(str(f), <<"n","o","d","e","_","m","o","d","u","l","e","s">>) \/ contains(str(f), <<".","g","i","t">>)
    \/ contains(str(f), <<"d","o","c","s","/","a","u","d","i","t">>)

is_skipped(link) ==
    \/ is_external_link(link)
    \/ is_anchor_only(link)
    \/ has_liquid_template(link)
    \/ split(link, "#")[1] = <<>>

check_key(f, link) == str(f) \o <<":">> \o link

\* checked.add that records nothing
checked_add_forgets(set, key) == set

checked_add(set, key) == set \cup {key}

ErrorRecord(f, link, expected, type) ==
    [file |-> str(f), link |-> link, expected |-> expected, type |-> type]

NoFile == [abs |-> FALSE, parts |-> <<>>]

Init ==
    /\ cwd \in CwdChoices
    /\ entries \in { S \in SUBSET Candidates : Cardinality(S) <= MaxFiles }
    /\ pc = "main"
    /\ pending = {}
    /\ md_file = NoFile
    /\ nocc = 0
    /\ checked = {}
    /\ errors = <<>>
    /\ exit_status = -1
    /\ log = {}
    /\ probed = {}
    /\ warnings = {}
    /\ opened = {}

\* main calls check_links(): lines 135-140
CheckLinks ==
    /\ pc = "main"
    /\ pc' = "files"
    /\ errors' = <<>>
    /\ checked' = {}
    /\ pending' = { rel_path(Path(root_dir), e) : e \in rglob(Path(root_dir)) }
    /\ UNCHANGED <<cwd, entries, md_file, nocc, exit_status, log, probed, warnings, opened>>

\* lines 142-147
SkipFile ==
    /\ pc = "files"
    /\ \E f \in pending :
        /\ is_excluded(f)
        /\ pending' = pending \ {f}
    /\ UNCHANGED <<cwd, entries, pc, md_file, nocc, checked, errors, exit_status, log,
                   probed, warnings, opened>>

\* lines 149-154
UnreadableFile ==
    /\ pc = "files"
    /\ \E f \in pending :
        /\ ~is_excluded(f)
        /\ resolve(f).parts \in DirEntries
        /\ pending' = pending \ {f}
        /\ warnings' = warnings \cup {str(f)}
    /\ UNCHANGED <<cwd, entries, pc, md_file, nocc, checked, errors, exit_status, log,
                   probed, opened>>

\* lines 149-157
ReadFile ==
    /\ pc = "files"
    /\ \E f \in pending :
        /\ ~is_excluded(f)
        /\ resolve(f).parts \notin DirEntries
        /\ pending' = pending \ {f}
        /\ md_file' = f
        /\ opened' = opened \cup {str(f)}
    /\ pc' = "links"
    /\ UNCHANGED <<cwd, entries, nocc, checked, errors, exit_status, log, probed, warnings>>

Logged(link, step) == log \cup {[file |-> str(md_file), link |-> link, step |-> step]}

\* lines 159-175
SkipLink ==
    /\ pc = "links" /\ nocc < MaxOcc
    /\ \E link \in Links :
        /\ is_skipped(link)
        /\ log' = Logged(link, "skip")
    /\ nocc' = nocc + 1
    /\ UNCHANGED <<cwd, entries, pc, pending, md_file, checked, errors, exit_status,
                   probed, warnings, opened>>

\* lines 177-180
SeenLink ==
    /\ pc = "links" /\ nocc < MaxOcc
    /\ \E link \in Links :
        /\ ~is_skipped(link)
        /\ check_key(md_file, link) \in checked
        /\ log' = Logged(link, "seen")
    /\ nocc' = nocc + 1
    /\ UNCHANGED <<cwd, entries, pc, pending, md_file, checked, errors, exit_status,
                   probed, warnings, opened>>

\* lines 181-192
WikiLink ==
    /\ pc = "links" /\ nocc < MaxOcc
    /\ \E link \in Links :
        LET clean_link == split(link, "#")[1] IN
        /\ ~is_skipped(link)
        /\ check_key(md_file, link) \notin checked
        /\ checked' = checked_add(checked, check_key(md_file, link))
        /\ is_wiki_style_link(clean_link, md_file)
        /\ errors' = IF ~check_wiki_style_link(clean_link, md_file)
                     THEN Append(errors, ErrorRecord(md_file, link,
                                    str(wiki_target(clean_link, md_file)), "wiki-style"))
                     ELSE errors
        /\ probed' = probed \cup wiki_probes(clean_link, md_file)
        /\ log' = Logged(link, "wiki")
    /\ nocc' = nocc + 1
    /\ UNCHANGED <<cwd, entries, pc, pending, md_file, exit_status, warnings, opened>>

\* lines 181-205
UnsafeLink ==
    /\ pc = "links" /\ nocc < MaxOcc
    /\ \E link \in Links :
        LET clean_link == split(link, "#")[1] IN
        /\ ~is_skipped(link)
        /\ check_key(md_file, link) \notin checked
        /\ checked' = checked_add(checked, check_key(md_file, link))
        /\ ~is_wiki_style_link(clean_link, md_file)
        /\ resolve_target_path(clean_link, md_file) = None
        /\ errors' = Append(errors, ErrorRecord(md_file, link,
                                <<"U","N","S","A","F","E"," ","P","A","T","H"," ","(","o","u","t","s","i","d","e"," ","r","e","p","o","s","i","t","o","r","y",")">>, "security"))
        /\ log' = Logged(link, "unsafe")
    /\ nocc' = nocc + 1
    /\ UNCHANGED <<cwd, entries, pc, pending, md_file, exit_status, probed, warnings, opened>>

\* lines 181-214
RegularLink ==
    /\ pc = "links" /\ nocc < MaxOcc
    /\ \E link \in Links :
        LET clean_link == split(link, "#")[1]
            target == resolve_target_path(clean_link, md_file) IN
        /\ ~is_skipped(link)
        /\ check_key(md_file, link) \notin checked
        /\ checked' = checked_add(checked, check_key(md_file, link))
        /\ ~is_wiki_style_link(clean_link, md_file)
        /\ target # None
        /\ errors' = IF ~exists(target)
                     THEN Append(errors, ErrorRecord(md_file, link, str(target), "regular"))
                     ELSE errors
        /\ probed' = probed \cup {target}
        /\ log' = Logged(link, "regular")
    /\ nocc' = nocc + 1
    /\ UNCHANGED <<cwd, entries, pc, pending, md_file, exit_status, warnings, opened>>

\* the loop of line 159 ends: back to the loop of line 140
EndOfLinks ==
    /\ pc = "links"
    /\ pc' = "files"
    /\ md_file' = NoFile
    /\ UNCHANGED <<cwd, entries, pending, nocc, checked, errors, exit_status, log,
                   probed, warnings, opened>>

\* main returning 0 on both branches
exit_code_zero(errs) == 0

exit_code(errs) == IF errs # <<>> THEN 1 ELSE 0

\* line 216, then lines 226-245 and sys.exit
Return ==
    /\ pc = "files" /\ pending = {}
    /\ pc' = "exit"
    /\ exit_status' = exit_code(errors)
    /\ UNCHANGED <<cwd, entries, pending, md_file, nocc, checked, errors, log,
                   probed, warnings, opened>>

Next ==
    \/ CheckLinks
    \/ SkipFile
    \/ UnreadableFile
    \/ ReadFile
    \/ SkipLink
    \/ SeenLink
    \/ WikiLink
    \/ UnsafeLink
    \/ RegularLink
    \/ EndOfLinks
    \/ Return

Spec == Init /\ [][Next]_vars

(***************************************************************************)
(* Vocabulary of the properties, stated on path components                 *)
(***************************************************************************)
\* the repository that holds the tool
RepoDir == <<<<"r","e","p","o">>>>

IsPrefix(p, q) == Len(p) <= Len(q) /\ SubSeq(q, 1, Len(p)) = p

\* the url without its '#fragment'
Stripped(url) == IF \E i \in 1..Len(url) : url[i] = "#"
                 THEN SubSeq(url, 1, (CHOOSE i \in 1..Len(url) : url[i] = "#" /\ \A j \in 1..(i - 1) : url[j] # "#") - 1)
                 ELSE url

\* the components of the scanned file named file, and of its directory
FileParts(file) == PathParts(split(file, "/"))
DirParts(file) == SubSeq(FileParts(file), 1, Len(FileParts(file)) - 1)

\* the absolute, normalized target of a regular link url found in file
Target(file, url) ==
    LET c == Stripped(url)
    IN  Normalize(<<>>, IF c # <<>> /\ c[1] = "/"
                        THEN RepoDir \o <<<<"d","o","c","s">>>> \o PathParts(split(c, "/"))
                        ELSE cwd \o DirParts(file) \o PathParts(split(c, "/")))

\* the target of a wiki-style link url found in file
WikiTarget(file, url) == cwd \o DirParts(file) \o <<Stripped(url) \o <<".","m","d">>>>

OnDisk(parts) == parts \in Dirs \cup Files

ErrorsFor(file, url) == { i \in DOMAIN errors : errors[i].file = file /\ errors[i].link = url }

IsExternal(url) == \E p \in {<<"h","t","t","p",":","/","/">>, <<"h","t","t","p","s",":","/","/">>, <<"m","a","i","l","t","o",":">>} : IsPrefix(p, url)
IsAnchorOnly(url) == IsPrefix(<<"#">>, url)
IsTemplated(url) == \E i \in 1..(Len(url) - 1) : <<url[i], url[i + 1]>> \in {<<"{","{">>, <<"}","}">>}
IsSkipClass(url) == IsExternal(url) \/ IsAnchorOnly(url) \/ IsTemplated(url)

\* the path has the directory docs/<name> among its directories
UnderDocs(dirs, name) == \E i \in 1..(Len(dirs) - 1) : dirs[i] = <<"d","o","c","s">> /\ dirs[i + 1] = name

\* the occurrences of regular links the scan has come to
RegularOccurrences ==
    { r \in log : ~IsSkipClass(r.link) /\ Stripped(r.link) # <<>>
                  /\ ~is_wiki_style_link(Stripped(r.link), Path(r.file)) }

\* the occurrences of wiki-style links the scan has come to
WikiOccurrences ==
    { r \in log : ~IsSkipClass(r.link) /\ Stripped(r.link) # <<>>
                  /\ is_wiki_style_link(Stripped(r.link), Path(r.file)) }

\* the paths whose existence was asked of the file system
ProbedTargets == { resolve(p).parts : p \in probed }

(***************************************************************************)
(* Properties                                                              *)
(***************************************************************************)
\* C1: a regular link whose resolved, normalized target is neither the
\* repository root nor below it has exactly one error record, of type
\* 'security' with the fixed expected text, and its target is never probed
\* for existence.
C1_UnsafeTargetIsSecurityError ==
    \A r \in RegularOccurrences :
        ~IsPrefix(RepoDir, Target(r.file, r.link)) =>
            /\ Cardinality(ErrorsFor(r.file, r.link)) = 1
            /\ \A i \in ErrorsFor(r.file, r.link) :
                  /\ errors[i].type = "security"
                  /\ errors[i].expected = <<"U","N","S","A","F","E"," ","P","A","T","H"," ","(","o","u","t","s","i","d","e"," ","r","e","p","o","s","i","t","o","r","y",")">>
            /\ Target(r.file, r.link) \notin ProbedTargets

\* C2: no error record carries an external, anchor-only or templated link.
C2_SkippedLinksNeverReported ==
    \A i \in DOMAIN errors : ~IsSkipClass(errors[i].link)

C2_Witness ==
    /\ pc = "exit"
    /\ errors # <<>>
    /\ \E r \in log : IsTemplated(r.link) /\ ~IsExternal(r.link) /\ ~IsAnchorOnly(r.link)

\* C3: a regular link whose resolved target exists inside the repository
\* has no error record; a 'regular' error record is only made for a target
\* inside the repository that does not exist, and its expected field names
\* the resolved target path.
C3_ExistingTargetNoError ==
    /\ \A r \in RegularOccurrences :
          (IsPrefix(RepoDir, Target(r.file, r.link)) /\ OnDisk(Target(r.file, r.link)))
              => ErrorsFor(r.file, r.link) = {}
    /\ \A i \in DOMAIN errors :
          errors[i].type = "regular" =>
              LET t == Target(errors[i].file, errors[i].link)
              IN  /\ IsPrefix(RepoDir, t)
                  /\ ~OnDisk(t)
                  /\ Normalize(<<>>, PathParts(split(errors[i].expected, "/"))) = t

\* C4: for a wiki-style link with bare name N in file F the existence of
\* <directory of F>/N.md alone decides: no error record if it exists, else
\* exactly one, of type 'wiki-style' with that path as expected; never a
\* 'security' or 'regular' record.
C4_WikiExistenceDecides ==
    \A r \in WikiOccurrences :
        /\ OnDisk(WikiTarget(r.file, r.link)) => ErrorsFor(r.file, r.link) = {}
        /\ ~OnDisk(WikiTarget(r.file, r.link)) => Cardinality(ErrorsFor(r.file, r.link)) = 1
        /\ \A i \in ErrorsFor(r.file, r.link) :
              /\ errors[i].type = "wiki-style"
              /\ errors[i].expected = join(DirParts(r.file) \o <<Stripped(r.link) \o <<".","m","d">>>>, <<"/">>)

\* C5: in every state the error list holds at most one record for a
\* (file, raw url) pair.
C5_OneErrorPerFileAndLink ==
    \A i, j \in DOMAIN errors :
        (errors[i].file = errors[j].file /\ errors[i].link = errors[j].link) => i = j

C5_Witness ==
    \E r \in log : r.step = "seen" /\ ErrorsFor(r.file, r.link) # {}

\* C6: the exit status is 1 exactly when the error list is not empty and 0
\* otherwise; an unreadable file adds no error record.
C6_ExitStatus ==
    /\ pc = "exit" => exit_status = (IF Len(errors) >= 1 THEN 1 ELSE 0)
    /\ \A i \in DOMAIN errors : errors[i].file \notin warnings

C6_Witness == pc = "exit" /\ warnings # {} /\ errors = <<>> /\ exit_status = 0

\* C7: a readable '.md' file below the root is left out of the scan exactly
\* when a directory of its path is '.git' or 'node_modules' or it lies in
\* docs/audit.
C7_ExclusionBySegment ==
    pc = "exit" =>
        \A e \in rglob(Path(root_dir)) \ DirEntries :
            LET f == str(rel_path(Path(root_dir), e))
            IN  f \notin opened <=>
                    \/ \E i \in DOMAIN DirParts(f) : DirParts(f)[i] \in {<<".","g","i","t">>, <<"n","o","d","e","_","m","o","d","u","l","e","s">>}
                    \/ UnderDocs(DirParts(f), <<"a","u","d","i","t">>)

\* C8: whatever the working directory, the scanned root is the repository
\* root: a scanned file with relative path f is the file <repository root>/f.
C8_ScansRepositoryRoot ==
    \A f \in opened : resolve(Path(f)).parts = RepoDir \o FileParts(f)

\* C9: a validated link is handled as wiki-style exactly when a directory
\* of the file's path is docs/wiki and the anchor-stripped url has no '/'
\* and does not end in '.md' or '/'.
C9_WikiClassification ==
    \A r \in log :
        r.step \in {"wiki", "unsafe", "regular"} =>
            (r.step = "wiki" <=>
                /\ UnderDocs(DirParts(r.file), <<"w","i","k","i">>)
                /\ ~endswith(Stripped(r.link), <<".","m","d">>)
                /\ \A i \in DOMAIN Stripped(r.link) : Stripped(r.link)[i] # "/")

\* C10: every link occurrence that is not external, anchor-only, templated
\* or empty is validated, unless the same url was validated earlier in the
\* same file.
C10_ExhaustiveScan ==
    \A r \in log :
        (~IsSkipClass(r.link) /\ Stripped(r.link) # <<>>) =>
            \E v \in log : v.file = r.file /\ v.link = r.link
                           /\ v.step \in {"wiki", "unsafe", "regular"}

====
